---- MODULE Spec2Model ----
(***************************************************************************)
(* The catalog/content store of the IRIS project (tables apg_catalog and   *)
(* apg_content of alter_schema.sql) and what operates on it: the script    *)
(* alter_schema.sql, the database reset notebook, the database privileges  *)
(* notebook, the CAPM catalog review notebook, the agent pipeline of       *)
(* model() and the evaluation notebook that drives it.                     *)
(*                                                                         *)
(* A table is the sequence of its rows in heap (insertion) order.  A       *)
(* psycopg2 connection runs with autocommit off: the first statement       *)
(* opens a transaction, which lasts until commit(), rollback() or the end  *)
(* of the connection; a statement the server rejects leaves the            *)
(* transaction aborted, and every later statement on it fails.             *)
(***************************************************************************)
EXTENDS Integers, Sequences, FiniteSets, TLC

VARIABLES
    notebook,         \* what this session runs: the notebook "reset", "permissions",
                      \* "review" or "evaluation", the script alter_schema.sql
                      \* ("schema"), or model() ("chat")
    apg_catalog,      \* committed rows of apg_catalog
    apg_content,      \* committed rows of apg_content
    catalog_columns,  \* committed column set of apg_catalog, {} while the table does not exist
    content_columns,  \* committed column set of apg_content, {} while the table does not exist
    extensions,       \* installed extensions (committed)
    available,        \* extensions listed by pg_available_extensions
    conn,             \* the notebook's main connection: "unset", "None", "open", "closed"
    txn,              \* transaction status of conn: "idle", "open", "aborted"
    locks,            \* the relations conn's transaction holds a lock on
    tx_catalog,       \* apg_catalog as seen inside conn's transaction
    tx_content,       \* apg_content as seen inside conn's transaction
    test_conn,        \* a probe's dedicated connection: "None", "open", "closed"
    test_txn,         \* transaction status of test_conn
    tx_columns,       \* column set of apg_catalog inside test_conn's transaction
    tx_extensions,    \* installed extensions inside test_conn's transaction
    pc,               \* position inside the running cell, "idle" between cells
    probe,            \* the probe the running cell belongs to, "none" otherwise
    log,              \* connection events of the cell run last (or running)
    out,              \* messages printed by the cell run last (or running)
    raised,           \* whether the cell run last ended with an exception
    result,           \* the row a probe fetched from pg_available_extensions
    reload,           \* progress of the clear / catalog / content reload
    pre_catalog,      \* apg_catalog as committed when the last clear started
    pre_content,      \* apg_content as committed when the last clear started
    before,           \* committed database as it was when the running probe started
    catalog_df,       \* review notebook: result of catalog_query
    content_summary_df, \* review notebook: result of content_summary_query
    displayed,        \* review notebook: the output of the two display cells
    dsn,              \* environment key and parameters of the connection attempted last
    stage,            \* pipeline: the stage the conversation is at, "none" outside a conversation
    trace,            \* pipeline: the events of the conversation so far
    plan,             \* pipeline: the sources the Planner selected
    running,          \* pipeline: the subagents started and not yet returned
    returned,         \* pipeline: the sources whose subagent has returned its result
    generator,        \* evaluation: how model() and its generator behave in this kernel
    clock,            \* evaluation: the value time.time() returns
    sample_result,    \* evaluation: the record run_test_case returned last
    tests,            \* evaluation: the list test_cases as the cells have left it
    test_df,          \* evaluation: the frame made of the list
    test_case_id,     \* evaluation: the id compare_results is called with
    expected,         \* evaluation: the "expected" of the test case of that id
    detailed_result,  \* evaluation: the result compare_results is called with
    comparison,       \* evaluation: what compare_results returned
    overall,          \* evaluation: the overall match compare_results printed
    generators,       \* evaluation: what model() does for each test case of the list
    all_results       \* evaluation: what run_all_tests returned

vars == <<notebook, apg_catalog, apg_content, catalog_columns, content_columns,
          extensions, available,
          conn, txn, locks, tx_catalog, tx_content,
          test_conn, test_txn, tx_columns, tx_extensions,
          pc, probe, log, out, raised, result,
          reload, pre_catalog, pre_content, before,
          catalog_df, content_summary_df, displayed, dsn,
          stage, trace, plan, running, returned,
          generator, clock, sample_result, tests, test_df,
          test_case_id, expected, detailed_result, comparison, overall,
          generators, all_results>>

pipelineVars == <<stage, trace, plan, running, returned>>
compareVars == <<test_case_id, expected, detailed_result, comparison, overall>>
batchVars == <<generators, all_results>>
evalVars == <<generator, clock, sample_result, tests, test_df, compareVars,
              batchVars>>
chatVars == <<pipelineVars, evalVars>>

dbVars == <<apg_catalog, apg_content, catalog_columns, content_columns, extensions, available>>
mainTxVars == <<tx_catalog, tx_content>>
testVars == <<test_conn, test_txn, tx_columns, tx_extensions>>
reloadVars == <<reload, pre_catalog, pre_content>>
reviewVars == <<catalog_df, content_summary_df, displayed>>

-----------------------------------------------------------------------------
(* Bounds of the model.                                                    *)

\* Rows the reset notebook may leave in a table before an insert cell is
\* no longer run.
MaxCatalogRows == 7
MaxContentRows == 13

\* Rows of the tables the lookups are tried on.
MaxLookupRows == 3

\* Sources the Planner selects for one conversation.
MaxSelected == 3

\* Chunks the generator of model() yields in one run, and the latest time
\* of the clock.
MaxChunks == 3
MaxClock == 2

-----------------------------------------------------------------------------
(* Schema: alter_schema.sql.                                               *)

CatalogColumns ==
    {"id", "created_at", "document_source", "document_type", "document_name",
     "document_description", "date_created", "date_last_modified",
     "file_name", "file_type", "file_size", "file_path"}

ContentTableColumns ==
    {"id", "created_at", "document_source", "document_type", "document_name",
     "section_id", "section_name", "section_summary", "section_content"}

CatalogRow(s, t, n) ==
    [document_source |-> s, document_type |-> t, document_name |-> n]

ContentRow(s, t, n, i) ==
    [document_source |-> s, document_type |-> t, document_name |-> n,
     section_id |-> i]

DocKey(r) == <<r.document_source, r.document_type, r.document_name>>

-----------------------------------------------------------------------------
(* The fixture of the reset notebook.                                      *)

catalog_records ==
    << CatalogRow("internal_wiki", "ifrs_standard", "IFRS_15_Revenue"),
       CatalogRow("internal_wiki", "ifrs_standard", "IAS_12_IncomeTaxes"),
       CatalogRow("internal_wiki", "internal_memo", "Q1_2025_Financial_Analysis") >>

ContentRecordsWithGap ==
    << ContentRow("internal_wiki", "ifrs_standard", "IFRS_15_Revenue", 0),
       ContentRow("internal_wiki", "ifrs_standard", "IFRS_15_Revenue", 1),
       ContentRow("internal_wiki", "ifrs_standard", "IAS_12_IncomeTaxes", 0),
       ContentRow("internal_wiki", "internal_memo", "Q1_2025_Financial_Analysis", 0),
       ContentRow("internal_wiki", "internal_memo", "Q1_2025_Financial_Analysis", 1),
       ContentRow("internal_wiki", "internal_memo", "Q1_2025_Financial_Analysis", 3) >>

content_records ==
    << ContentRow("internal_wiki", "ifrs_standard", "IFRS_15_Revenue", 0),
       ContentRow("internal_wiki", "ifrs_standard", "IFRS_15_Revenue", 1),
       ContentRow("internal_wiki", "ifrs_standard", "IAS_12_IncomeTaxes", 0),
       ContentRow("internal_wiki", "internal_memo", "Q1_2025_Financial_Analysis", 0),
       ContentRow("internal_wiki", "internal_memo", "Q1_2025_Financial_Analysis", 1),
       ContentRow("internal_wiki", "internal_memo", "Q1_2025_Financial_Analysis", 2) >>

(* Contents the database may hold before the reset notebook runs: nothing, *)
(* the fixture of an earlier run, documents of another source, or both.    *)
CapmCatalog ==
    << CatalogRow("internal_capm", "capm", "IFRS_15_Revenue") >>

CapmContent ==
    << ContentRow("internal_capm", "capm", "IFRS_15_Revenue", 1),
       ContentRow("internal_capm", "capm", "IFRS_15_Revenue", 0) >>

PreExisting ==
    { [catalog |-> <<>>, content |-> <<>>],
      [catalog |-> catalog_records, content |-> content_records],
      [catalog |-> CapmCatalog, content |-> CapmContent],
      [catalog |-> CapmCatalog \o catalog_records,
       content |-> CapmContent \o content_records] }

-----------------------------------------------------------------------------
(* Connection parameters: db_config of iris.src.initial_setup.             *)

\* The environment keys a notebook may pass: "local", and any other key
\* model_settings.ENVIRONMENT may hold.
Environments == {"local", "other"}

\* get_db_params(env): the parameters of the environment.  Those of "local"
\* are the documented ones; those of another key are not documented.
get_db_params(env) ==
    IF env = "local"
    THEN [host |-> "localhost", port |-> 5432, dbname |-> "maven-finance",
          user |-> "iris_dev"]
    ELSE [host |-> "undocumented", port |-> 0, dbname |-> "undocumented",
          user |-> "undocumented"]

LibpqDefaults(env) ==
    [env |-> env,
     params |-> [host |-> "", port |-> 0, dbname |-> "", user |-> ""]]

\* db_params = get_db_params(env); psycopg2.connect(**db_params): what the
\* connection is attempted with.
Dsn(env) == [env |-> env, params |-> get_db_params(env)]

\* connect_to_db(env) resolves the parameters of env and connects with them.
connect_to_db(env) == Dsn(env)

\* No connection was attempted yet.
NoDsn == [env |-> "none", params |-> get_db_params("none")]

-----------------------------------------------------------------------------
(* Statements and transaction control of the main connection.              *)

TruncateKeepsRows(table) == table

\* TRUNCATE TABLE apg_catalog, apg_content RESTART IDENTITY CASCADE
Truncate(table) == <<>>

\* What a probe must leave as it found it.
Snapshot ==
    [catalog |-> Len(apg_catalog), content |-> Len(apg_content),
     columns |-> catalog_columns, content_columns |-> content_columns,
     extensions |-> extensions]

\* The state of the cells' shared variables that a cell leaves alone.
NoProbe ==
    /\ probe' = "none"
    /\ UNCHANGED <<notebook, chatVars, dsn, testVars, pc, before, result>>

\* What every cell of the reset notebook does when it cannot reach the
\* database: `if conn:` skips the body when conn is None, the name is unbound
\* before the connect cell ran, conn.cursor() raises on a closed connection
\* and the first statement raises in an aborted transaction.
CellWithoutDatabase ==
    /\ pc = "idle"
    /\ notebook \in {"reset", "permissions"}
    /\ \/ conn # "open"
       \/ txn = "aborted"
    /\ raised' = (conn # "None")
    /\ out' = {}
    /\ log' = <<>>
    /\ UNCHANGED <<dbVars, conn, txn, locks, mainTxVars, reloadVars, reviewVars>>
    /\ NoProbe

\* conn.commit(): the transaction's view becomes the committed state.  In an
\* aborted transaction the server answers COMMIT with ROLLBACK.
Commit ==
    /\ apg_catalog' = tx_catalog'
    /\ apg_content' = tx_content'
    /\ txn' = "idle"
    /\ locks' = {}

\* A statement of a cell raised: the server rejected it, the transaction is
\* aborted and what it had changed is lost; the locks it had taken stay until
\* the transaction ends.  The exception leaves the cell before its commit().
Fails ==
    /\ raised' = TRUE
    /\ txn' = "aborted"
    /\ locks' = locks
    /\ tx_catalog' = apg_catalog
    /\ tx_content' = apg_content
    /\ UNCHANGED <<apg_catalog, apg_content>>

-----------------------------------------------------------------------------
(* The cells of the database reset notebook.                               *)

\* conn = db_config.connect_to_db("local"); a connection the name was bound
\* to before is dropped, which ends its transaction without committing.
ConnectCell ==
    /\ pc = "idle"
    /\ notebook = "reset"
    /\ \E ok \in BOOLEAN :
         /\ conn' = IF ok THEN "open" ELSE "None"
         /\ log' = << <<"conn", IF ok THEN "connect" ELSE "connect_failed">> >>
    /\ txn' = "idle"
    /\ locks' = {}
    /\ tx_catalog' = apg_catalog
    /\ tx_content' = apg_content
    /\ out' = {}
    /\ raised' = FALSE
    /\ dsn' = connect_to_db("local")
    /\ probe' = "none"
    /\ UNCHANGED <<notebook, chatVars, dbVars, reloadVars, reviewVars, testVars, pc,
                   before, result>>

\* The tables of the two SELECT COUNT(*).
CountedRelations == {"apg_catalog", "apg_content"}

CountMessages ==
    { <<"apg_catalog record count", Len(tx_catalog)>>,
      <<"apg_content record count", Len(tx_content)>> }

\* "Check current data" and "Verify the inserted data": SELECT COUNT(*) of
\* both tables on conn, inside conn's transaction, which stays open.
CheckCurrentData ==
    /\ pc = "idle"
    /\ notebook = "reset"
    /\ conn = "open"
    /\ txn # "aborted"
    /\ txn' = "open"
    /\ locks' = locks \cup CountedRelations
    /\ out' = CountMessages
    /\ log' = << <<"conn", "execute">> >>
    /\ raised' = FALSE
    /\ UNCHANGED <<dbVars, conn, mainTxVars, reloadVars, reviewVars>>
    /\ NoProbe

\* "Clear all existing data": TRUNCATE of both tables, then conn.commit().
ClearExistingData ==
    /\ pc = "idle"
    /\ notebook = "reset"
    /\ conn = "open"
    /\ txn # "aborted"
    /\ pre_catalog' = apg_catalog
    /\ pre_content' = apg_content
    /\ log' = << <<"conn", "execute">> >>
    /\ \E ok \in BOOLEAN :
         IF ok
         THEN /\ tx_catalog' = Truncate(tx_catalog)
              /\ tx_content' = Truncate(tx_content)
              /\ Commit
              /\ raised' = FALSE
              /\ out' = {<<"All data cleared.", 0>>}
              /\ reload' = "cleared"
         ELSE /\ Fails
              /\ out' = {}
              /\ reload' = "failed"
    /\ UNCHANGED <<catalog_columns, content_columns, extensions, available, conn, reviewVars>>
    /\ NoProbe

\* "Insert catalog records": one INSERT per record of catalog_records, then
\* conn.commit().  k is the number of INSERTs that succeed.
InsertCatalogRecords ==
    /\ pc = "idle"
    /\ notebook = "reset"
    /\ conn = "open"
    /\ txn # "aborted"
    /\ Len(tx_catalog) + Len(catalog_records) <= MaxCatalogRows
    /\ log' = << <<"conn", "execute">> >>
    /\ \E k \in 0..Len(catalog_records) :
         IF k = Len(catalog_records)
         THEN /\ tx_catalog' = tx_catalog \o catalog_records
              /\ tx_content' = tx_content
              /\ Commit
              /\ raised' = FALSE
              /\ out' = {<<"Catalog records inserted.", 0>>}
              /\ reload' = IF reload = "cleared" THEN "catalogued" ELSE "none"
         ELSE /\ Fails
              /\ out' = {}
              /\ reload' = IF reload = "cleared" THEN "failed" ELSE "none"
    /\ UNCHANGED <<catalog_columns, content_columns, extensions, available, conn,
                   pre_catalog, pre_content, reviewVars>>
    /\ NoProbe

\* "Insert content records": one INSERT per record of content_records, then
\* conn.commit().  k is the number of INSERTs that succeed.
InsertContentRecords ==
    /\ pc = "idle"
    /\ notebook = "reset"
    /\ conn = "open"
    /\ txn # "aborted"
    /\ Len(tx_content) + Len(content_records) <= MaxContentRows
    /\ log' = << <<"conn", "execute">> >>
    /\ \E k \in 0..Len(content_records) :
         IF k = Len(content_records)
         THEN /\ tx_catalog' = tx_catalog
              /\ tx_content' = tx_content \o content_records
              /\ Commit
              /\ raised' = FALSE
              /\ out' = {<<"Content records inserted.", 0>>}
              /\ reload' = IF reload = "catalogued" THEN "complete" ELSE "none"
         ELSE /\ Fails
              /\ out' = {}
              /\ reload' = IF reload = "catalogued" THEN "failed" ELSE "none"
    /\ UNCHANGED <<catalog_columns, content_columns, extensions, available, conn,
                   pre_catalog, pre_content, reviewVars>>
    /\ NoProbe

\* "Close the connection when done": conn.close() ends the transaction
\* without committing.  close() on a closed connection does nothing.
CloseConnection ==
    /\ pc = "idle"
    /\ notebook = "reset"
    /\ conn \in {"open", "closed"}
    /\ conn' = "closed"
    /\ txn' = "idle"
    /\ locks' = {}
    /\ tx_catalog' = apg_catalog
    /\ tx_content' = apg_content
    /\ log' = << <<"conn", "close">> >>
    /\ out' = {<<"Database connection closed.", 0>>}
    /\ raised' = FALSE
    /\ UNCHANGED <<dbVars, reloadVars, reviewVars>>
    /\ NoProbe

\* The sample test cases: id and description.
test_cases ==
    << [id |-> "TC001", description |-> "Simple IFRS 16 lease query"],
       [id |-> "TC002", description |-> "Revenue recognition with complete context"],
       [id |-> "TC003", description |-> "Internal controls query"] >>

\* pd.DataFrame(list): one row per item, in the order of the list, under
\* the index 0, 1, ...
DataFrame(list) ==
    [i \in 1..Len(list) |->
        [index |-> i - 1, id |-> list[i].id,
         description |-> list[i].description]]

\* Python's None, and a str with its value.
None == [type |-> "NoneType"]
Text(value) == [type |-> "str", value |-> value]

\* compare_results was not called.
InitCompareIdle ==
    /\ test_case_id = ""
    /\ expected = <<>>
    /\ detailed_result = [id |-> "none"]
    /\ comparison = None
    /\ overall = None

\* all_results before run_all_tests has returned: a list it cannot return.
NotReturned == <<None>>

\* run_all_tests was not called.
InitBatchIdle ==
    /\ generators = <<>>
    /\ all_results = NotReturned

\* model() was not called and run_test_case has returned nothing.
\* The output of a display cell that has not run.
NotDisplayed == [shown |-> "nothing"]

NotCalled == [call |-> "raises", chunks |-> <<>>, end |-> "exhausted"]
NoResult == [id |-> "none"]

InitKernel ==
    /\ conn = "unset"
    /\ txn = "idle"
    /\ locks = {}
    /\ test_conn = "None"
    /\ test_txn = "idle"
    /\ tx_columns = catalog_columns
    /\ tx_extensions = extensions
    /\ pc = "idle"
    /\ probe = "none"
    /\ log = <<>>
    /\ out = {}
    /\ raised = FALSE
    /\ result = "None"
    /\ reload = "none"
    /\ before = Snapshot
    /\ catalog_df = <<>>
    /\ content_summary_df = <<>>
    /\ displayed = [catalog |-> NotDisplayed, content |-> NotDisplayed]
    /\ dsn = NoDsn
    /\ stage = "none"
    /\ trace = <<>>
    /\ plan = {}
    /\ running = {}
    /\ returned = {}

InitIdle ==
    /\ generator = NotCalled
    /\ clock = 0
    /\ sample_result = NoResult
    /\ tests = test_cases
    /\ test_df = DataFrame(test_cases)
    /\ InitCompareIdle
    /\ InitBatchIdle
    /\ InitKernel

InitReset ==
    /\ notebook = "reset"
    /\ catalog_columns = CatalogColumns
    /\ content_columns = ContentTableColumns
    /\ extensions = {}
    /\ available = {}
    /\ \E db \in PreExisting :
         /\ apg_catalog = db.catalog
         /\ apg_content = db.content
    /\ tx_catalog = apg_catalog
    /\ tx_content = apg_content
    /\ pre_catalog = apg_catalog
    /\ pre_content = apg_content
    /\ InitIdle

NextReset ==
    \/ ConnectCell
    \/ CheckCurrentData
    \/ ClearExistingData
    \/ InsertCatalogRecords
    \/ InsertContentRecords
    \/ CloseConnection
    \/ CellWithoutDatabase

-----------------------------------------------------------------------------
(* The database privileges notebook.  Each probe is a sequence of steps:   *)
(* pc is "connect", "execute", "finally", "close" while a probe runs.      *)

AddedColumns == {"document_usage", "file_link"}

dbRows == <<apg_catalog, apg_content, available>>
probeFrame == <<notebook, chatVars, dbRows, conn, mainTxVars, reloadVars, reviewVars>>

Message(text) == <<text, 0>>

AlwaysTruthy(c) == c # "unset"

\* `if conn:` / `if not conn: return`: None is false, a connection object
\* (open or closed) is true.
Truthy(c) == c \in {"open", "closed"}

\* SELECT ... FROM pg_available_extensions WHERE name = 'vector', fetchone():
\* no row, a row whose installed_version is NULL, or a row with a version.
PgAvailableExtensions ==
    IF "vector" \notin available THEN "None"
    ELSE IF "vector" \notin extensions THEN "NULL"
    ELSE "installed"

SkipOnlyUnavailable(row) == row = "None"

\* `if not result or not result[0]`
NotInstalled(row) == row = "None" \/ row = "NULL"

\* Get database parameters / connect_to_db("local") and report.
PermissionsConnectCell ==
    /\ pc = "idle"
    /\ notebook = "permissions"
    /\ \E ok \in BOOLEAN :
         /\ conn' = IF ok THEN "open" ELSE "None"
         /\ log' = << <<"conn", IF ok THEN "connect" ELSE "connect_failed">> >>
         /\ out' = {Message(IF ok THEN "Connected successfully!"
                                  ELSE "Failed to connect to database.")}
    /\ txn' = "idle"
    /\ locks' = {}
    /\ raised' = FALSE
    /\ probe' = "none"
    /\ dsn' = connect_to_db("local")
    /\ UNCHANGED <<notebook, chatVars, dbVars, mainTxVars, reloadVars, reviewVars,
                   testVars, pc, before, result>>

PrivilegesOfTheTables ==
    {"information_schema.table_privileges", "pg_user", "apg_catalog",
     "apg_content"}

\* The relations the SELECTs of check_user_privileges name: two views over
\* the system catalogs.
PrivilegeRelations == {"information_schema.table_privileges", "pg_user"}

\* The relation the availability and installed checks name: a view over the
\* system catalogs.
ExtensionRelations == {"pg_available_extensions"}

\* check_user_privileges(conn): three SELECTs on conn, whose transaction
\* stays open and keeps the locks of what it read.
check_user_privileges ==
    /\ pc = "idle"
    /\ notebook = "permissions"
    /\ conn = "open"
    /\ txn' = "open"
    /\ locks' = locks \cup PrivilegeRelations
    /\ log' = << <<"conn", "select">>, <<"conn", "select">>, <<"conn", "select">> >>
    /\ out' = {Message("Current database user")}
    /\ raised' = FALSE
    /\ probe' = "none"
    /\ UNCHANGED <<notebook, chatVars, dsn, dbVars, conn, mainTxVars, reloadVars, reviewVars,
                   testVars, pc, before, result>>

\* The start of every probe: test_conn = None and nothing printed or done yet.
ProbeStarts(name) ==
    /\ probe' = name
    /\ before' = Snapshot
    /\ test_conn' = "None"
    /\ test_txn' = "idle"
    /\ tx_columns' = catalog_columns
    /\ tx_extensions' = extensions
    /\ raised' = FALSE
    /\ UNCHANGED <<catalog_columns, content_columns, extensions, probeFrame, dsn>>

\* test_alter_table_permission(conn), up to its try block.  conn itself is
\* not used.
test_alter_table_permission ==
    /\ pc = "idle"
    /\ notebook = "permissions"
    /\ Truthy(conn)
    /\ ProbeStarts("alter")
    /\ log' = <<>>
    /\ out' = {Message("Testing ALTER TABLE permission...")}
    /\ pc' = "connect"
    /\ UNCHANGED <<txn, locks, result>>

\* check_pgvector_extension(conn), up to its try block: the availability
\* query on conn; without a row nothing is probed.
check_pgvector_extension ==
    /\ pc = "idle"
    /\ notebook = "permissions"
    /\ conn = "open"
    /\ ProbeStarts("pgvector")
    /\ txn' = "open"
    /\ locks' = locks \cup ExtensionRelations
    /\ log' = << <<"conn", "select">> >>
    /\ result' = PgAvailableExtensions
    /\ IF result' = "None"
         THEN /\ out' = {Message("pgvector extension is not available on this PostgreSQL server.")}
              /\ pc' = "idle"
         ELSE /\ out' = {Message("pgvector extension is available:"),
                          Message(IF result' = "NULL"
                                    THEN "Status: AVAILABLE BUT NOT INSTALLED"
                                    ELSE "Status: INSTALLED")}
              /\ pc' = "connect"

\* test_vector_column_creation(conn), up to its try block: the installed
\* check on conn; when the extension is not installed the probe warns and
\* returns.
test_vector_column_creation ==
    /\ pc = "idle"
    /\ notebook = "permissions"
    /\ conn = "open"
    /\ ProbeStarts("vector_column")
    /\ txn' = "open"
    /\ locks' = locks \cup ExtensionRelations
    /\ log' = << <<"conn", "select">> >>
    /\ result' = PgAvailableExtensions
    /\ IF NotInstalled(result')
         THEN /\ out' = {Message("Testing vector column creation..."),
                          Message("Cannot test vector column creation because the vector extension is not installed.")}
              /\ pc' = "idle"
         ELSE /\ out' = {Message("Testing vector column creation...")}
              /\ pc' = "connect"

\* test_conn = psycopg2.connect(**db_params); test_conn.autocommit = False.
\* When it raises, test_conn stays None and control passes to except.
psycopg2_connect ==
    /\ pc = "connect"
    /\ \E ok \in BOOLEAN :
         IF ok
         THEN /\ test_conn' = "open"
              /\ log' = Append(log, <<"test_conn", "connect">>)
              /\ out' = out
              /\ pc' = "execute"
         ELSE /\ test_conn' = "None"
              /\ log' = Append(log, <<"test_conn", "connect_failed">>)
              /\ out' = out \cup {Message("test failed")}
              /\ pc' = "finally"
    /\ dsn' = Dsn("local")
    /\ UNCHANGED <<catalog_columns, content_columns, extensions, probeFrame, txn, locks, test_txn,
                   tx_columns, tx_extensions, probe, raised, before, result>>

\* The column a probe tries to add to apg_catalog.
TestColumn ==
    IF probe = "alter" THEN "_test_permission_column" ELSE "_test_vector_column"

\* Whether the server accepts the probe's statement, given the privilege.
Accepted(privileged) ==
    /\ privileged
    /\ probe = "alter" => TestColumn \notin tx_columns
    /\ probe = "vector_column" =>
           /\ TestColumn \notin tx_columns
           /\ "vector" \in tx_extensions

\* ALTER TABLE apg_catalog asks for the exclusive lock of the table, which
\* is not granted while another transaction holds any lock on it.
Blocked ==
    /\ probe \in {"alter", "vector_column"}
    /\ "apg_catalog" \in locks

\* The statement of the try block, on test_conn: ALTER TABLE apg_catalog ADD
\* COLUMN ..., or CREATE EXTENSION IF NOT EXISTS vector.  It changes what
\* test_conn's transaction sees; when it raises the transaction is aborted.
\* While conn's transaction holds a lock on the table the ALTER TABLE waits,
\* and the kernel with it.
ProbeExecute ==
    /\ pc = "execute"
    /\ log' = Append(log, <<"test_conn", "ddl">>)
    /\ IF Blocked
         THEN /\ pc' = "waiting"
              /\ UNCHANGED <<test_txn, tx_columns, tx_extensions, out>>
         ELSE /\ \E privileged \in BOOLEAN :
                   IF Accepted(privileged)
                   THEN /\ test_txn' = "open"
                        /\ tx_columns' = IF probe = "pgvector"
                                            THEN tx_columns
                                            ELSE tx_columns \cup {TestColumn}
                        /\ tx_extensions' = IF probe = "pgvector"
                                               THEN tx_extensions \cup {"vector"}
                                               ELSE tx_extensions
                        /\ out' = out \cup {Message("test successful")}
                   ELSE /\ test_txn' = "aborted"
                        /\ UNCHANGED <<tx_columns, tx_extensions>>
                        /\ out' = out \cup {Message("test failed")}
              /\ pc' = "finally"
    /\ UNCHANGED <<catalog_columns, content_columns, extensions, probeFrame, dsn, txn, locks, test_conn,
                   probe, raised, before, result>>

CommitInstead ==
    /\ catalog_columns' = tx_columns
    /\ UNCHANGED content_columns
    /\ extensions' = tx_extensions
    /\ UNCHANGED <<tx_columns, tx_extensions>>
    /\ test_txn' = "idle"
    /\ log' = Append(log, <<"test_conn", "commit">>)

\* test_conn.rollback(): what the transaction changed is discarded.
Rollback ==
    /\ tx_columns' = catalog_columns
    /\ tx_extensions' = extensions
    /\ UNCHANGED <<catalog_columns, content_columns, extensions>>
    /\ test_txn' = "idle"
    /\ log' = Append(log, <<"test_conn", "rollback">>)

\* finally: if test_conn: test_conn.rollback(), print.
ProbeFinally ==
    /\ pc = "finally"
    /\ IF test_conn = "open"
         THEN /\ Rollback
              /\ out' = out \cup {Message("Transaction rolled back - no changes were made to the database.")}
              /\ pc' = "close"
         ELSE /\ UNCHANGED <<catalog_columns, content_columns, extensions, tx_columns,
                             tx_extensions, test_txn, log, out>>
              /\ pc' = "idle"
    /\ UNCHANGED <<probeFrame, dsn, txn, locks, test_conn, probe, raised, before, result>>

LeaveOpen ==
    /\ UNCHANGED <<test_conn, log>>
    /\ tx_columns' = catalog_columns
    /\ tx_extensions' = extensions

\* test_conn.close(): the end of the connection discards an open transaction.
Close ==
    /\ test_conn' = "closed"
    /\ tx_columns' = catalog_columns
    /\ tx_extensions' = extensions
    /\ log' = Append(log, <<"test_conn", "close">>)

\* finally: test_conn.close(); the probe returns.
ProbeClose ==
    /\ pc = "close"
    /\ Close
    /\ pc' = "idle"
    /\ UNCHANGED <<catalog_columns, content_columns, extensions, probeFrame, dsn, txn, locks, test_txn,
                   probe, out, raised, before, result>>

\* Summary: if conn: conn.close().
SummaryCell ==
    /\ pc = "idle"
    /\ notebook = "permissions"
    /\ Truthy(conn)
    /\ conn' = "closed"
    /\ txn' = "idle"
    /\ locks' = {}
    /\ log' = << <<"conn", "close">> >>
    /\ out' = {Message("=== SUMMARY ==="), Message("Database connection closed.")}
    /\ raised' = FALSE
    /\ probe' = "none"
    /\ UNCHANGED <<notebook, chatVars, dsn, dbVars, mainTxVars, reloadVars, reviewVars,
                   testVars, pc, before, result>>

InitPermissions ==
    /\ notebook = "permissions"
    /\ content_columns = ContentTableColumns
    /\ catalog_columns \in {CatalogColumns, CatalogColumns \cup AddedColumns}
    /\ available \in SUBSET {"vector"}
    /\ extensions \in SUBSET available
    /\ \E db \in PreExisting :
         /\ apg_catalog = db.catalog
         /\ apg_content = db.content
    /\ tx_catalog = apg_catalog
    /\ tx_content = apg_content
    /\ pre_catalog = apg_catalog
    /\ pre_content = apg_content
    /\ InitIdle

NextPermissions ==
    \/ PermissionsConnectCell
    \/ check_user_privileges
    \/ test_alter_table_permission
    \/ check_pgvector_extension
    \/ test_vector_column_creation
    \/ psycopg2_connect
    \/ ProbeExecute
    \/ ProbeFinally
    \/ ProbeClose
    \/ SummaryCell

-----------------------------------------------------------------------------
(* The CAPM catalog review notebook: one cell that connects, runs the two  *)
(* lookups and closes the connection.  pc is "review_connect",             *)
(* "catalog_query", "content_query", "review_finally" while it runs.       *)

\* ORDER BY document_name compares names; the names of the model in the
\* order the comparison gives them.
NameOrder ==
    <<"IAS_12_IncomeTaxes", "IFRS_15_Revenue", "Q1_2025_Financial_Analysis">>

NameRank(name) == CHOOSE i \in 1..Len(NameOrder) : NameOrder[i] = name

\* WHERE document_source = source
Where(rows, source) == SelectSeq(rows, LAMBDA r : r.document_source = source)

ByNameOnly(a, b) == NameRank(a.document_name) < NameRank(b.document_name)

\* ORDER BY document_name, section_id: a sorts strictly before b.
ContentBefore(a, b) ==
    \/ NameRank(a.document_name) < NameRank(b.document_name)
    \/ /\ a.document_name = b.document_name
       /\ a.section_id < b.section_id

\* r put into the ordered rows behind every row it does not sort before.
InsertContent(ordered, r) ==
    LET p == Cardinality({i \in 1..Len(ordered) : ~ContentBefore(r, ordered[i])})
    IN  SubSeq(ordered, 1, p) \o <<r>> \o SubSeq(ordered, p + 1, Len(ordered))

RECURSIVE OrderContent(_)
OrderContent(rows) ==
    IF rows = <<>> THEN <<>>
    ELSE InsertContent(OrderContent(SubSeq(rows, 1, Len(rows) - 1)), rows[Len(rows)])

\* SELECT document_name, section_id, section_name, section_summary
ContentColumns(r) ==
    [document_name |-> r.document_name, section_id |-> r.section_id]

\* SELECT ... FROM apg_content WHERE document_source = 'internal_capm'
\* ORDER BY document_name, section_id
content_summary_query ==
    LET rows == OrderContent(Where(apg_content, "internal_capm"))
    IN  [i \in 1..Len(rows) |-> ContentColumns(rows[i])]

HeapOrder(a, b) == FALSE

\* ORDER BY document_name: a sorts strictly before b.
CatalogBefore(a, b) == NameRank(a.document_name) < NameRank(b.document_name)

InsertCatalog(ordered, r) ==
    LET p == Cardinality({i \in 1..Len(ordered) : ~CatalogBefore(r, ordered[i])})
    IN  SubSeq(ordered, 1, p) \o <<r>> \o SubSeq(ordered, p + 1, Len(ordered))

RECURSIVE OrderCatalog(_)
OrderCatalog(rows) ==
    IF rows = <<>> THEN <<>>
    ELSE InsertCatalog(OrderCatalog(SubSeq(rows, 1, Len(rows) - 1)), rows[Len(rows)])

\* SELECT id, document_name, document_description FROM apg_catalog
\* WHERE document_source = 'internal_capm' ORDER BY document_name
catalog_query ==
    LET rows == OrderCatalog(Where(apg_catalog, "internal_capm"))
    IN  [i \in 1..Len(rows) |-> [document_name |-> rows[i].document_name]]

reviewFrame == <<notebook, chatVars, dbVars, mainTxVars, reloadVars, testVars, probe,
                 before, result, raised>>

\* conn = None, both frames empty, and the test that db_config was imported.
ReviewCell ==
    /\ pc = "idle"
    /\ notebook = "review"
    /\ conn' = "None"
    /\ txn' = "idle"
    /\ locks' = {}
    /\ catalog_df' = <<>>
    /\ content_summary_df' = <<>>
    /\ log' = <<>>
    /\ \E imported \in BOOLEAN :
         IF imported
         THEN /\ out' = {}
              /\ pc' = "review_connect"
         ELSE /\ out' = {Message("Database or environment configuration not loaded. Cannot connect to DB.")}
              /\ pc' = "idle"
    /\ UNCHANGED <<reviewFrame, dsn, displayed>>

\* get_db_params(ENVIRONMENT); conn = connect_to_db(env=ENVIRONMENT): a
\* connection, None, or an exception caught by the except clause.
ReviewConnect ==
    /\ pc = "review_connect"
    /\ \E outcome \in {"connected", "None", "raised"} :
         /\ conn' = IF outcome = "connected" THEN "open" ELSE "None"
         /\ log' = Append(log, <<"conn", CASE outcome = "connected" -> "connect"
                                             [] outcome = "None" -> "connect_failed"
                                             [] outcome = "raised" -> "connect_raised">>)
         /\ out' = out \cup
               {Message(CASE outcome = "connected" -> "Connection successful."
                          [] outcome = "None" -> "Database connection failed."
                          [] outcome = "raised" -> "Error while connecting to or querying PostgreSQL")}
         /\ pc' = IF outcome = "connected" THEN "catalog_query" ELSE "review_finally"
    /\ \E ENVIRONMENT \in Environments : dsn' = connect_to_db(ENVIRONMENT)
    /\ UNCHANGED <<reviewFrame, txn, locks, reviewVars>>

CatalogQueryDeletesFetched ==
    /\ pc = "catalog_query"
    /\ log' = Append(log, <<"conn", "select">>)
    /\ catalog_df' = catalog_query
    /\ apg_catalog' = Where(apg_catalog, "internal_wiki")
    /\ txn' = "open"
    /\ locks' = locks \cup {"apg_catalog"}
    /\ out' = out \cup {Message("Fetched catalog entries.")}
    /\ pc' = "content_query"
    /\ UNCHANGED <<notebook, chatVars, dsn, apg_content, catalog_columns, content_columns, extensions, available,
                   mainTxVars, reloadVars, testVars, probe, before, result,
                   raised, conn, content_summary_df, displayed>>

\* catalog_df = pd.read_sql(catalog_query, conn)
CatalogQuery ==
    /\ pc = "catalog_query"
    /\ log' = Append(log, <<"conn", "select">>)
    /\ \E ok \in BOOLEAN :
         IF ok
         THEN /\ catalog_df' = catalog_query
              /\ txn' = "open"
              /\ locks' = locks \cup {"apg_catalog"}
              /\ out' = out \cup {Message("Fetched catalog entries.")}
              /\ pc' = "content_query"
         ELSE /\ catalog_df' = catalog_df
              /\ txn' = "aborted"
              /\ locks' = locks
              /\ out' = out \cup {Message("Error while connecting to or querying PostgreSQL")}
              /\ pc' = "review_finally"
    /\ UNCHANGED <<reviewFrame, dsn, conn, content_summary_df, displayed>>

ContentFailureClearsFrames ==
    /\ pc = "content_query"
    /\ log' = Append(log, <<"conn", "select">>)
    /\ \E ok \in BOOLEAN :
         IF ok
         THEN /\ content_summary_df' = content_summary_query
              /\ catalog_df' = catalog_df
              /\ txn' = "open"
              /\ locks' = locks \cup {"apg_content"}
              /\ out' = out \cup {Message("Fetched content summary entries.")}
         ELSE /\ content_summary_df' = <<>>
              /\ catalog_df' = <<>>
              /\ txn' = "aborted"
              /\ locks' = locks
              /\ out' = out \cup {Message("Error while connecting to or querying PostgreSQL")}
    /\ pc' = "review_finally"
    /\ UNCHANGED <<reviewFrame, dsn, conn, displayed>>

\* content_summary_df = pd.read_sql(content_summary_query, conn)
ContentQuery ==
    /\ pc = "content_query"
    /\ log' = Append(log, <<"conn", "select">>)
    /\ \E ok \in BOOLEAN :
         IF ok
         THEN /\ content_summary_df' = content_summary_query
              /\ txn' = "open"
              /\ locks' = locks \cup {"apg_content"}
              /\ out' = out \cup {Message("Fetched content summary entries.")}
         ELSE /\ content_summary_df' = content_summary_df
              /\ txn' = "aborted"
              /\ locks' = locks
              /\ out' = out \cup {Message("Error while connecting to or querying PostgreSQL")}
    /\ pc' = "review_finally"
    /\ UNCHANGED <<reviewFrame, dsn, conn, catalog_df, displayed>>

CloseOnlyAfterSuccess ==
    /\ pc = "review_finally"
    /\ IF conn = "open" /\ txn # "aborted"
         THEN /\ conn' = "closed"
              /\ log' = Append(log, <<"conn", "close">>)
              /\ out' = out \cup {Message("Database connection closed.")}
         ELSE UNCHANGED <<conn, log, out>>
    /\ txn' = "idle"
    /\ locks' = {}
    /\ pc' = "idle"
    /\ UNCHANGED <<reviewFrame, dsn, reviewVars>>

\* finally: if conn: conn.close()
ReviewFinally ==
    /\ pc = "review_finally"
    /\ IF conn = "open"
         THEN /\ conn' = "closed"
              /\ log' = Append(log, <<"conn", "close">>)
              /\ out' = out \cup {Message("Database connection closed.")}
         ELSE UNCHANGED <<conn, log, out>>
    /\ txn' = "idle"
    /\ locks' = {}
    /\ pc' = "idle"
    /\ UNCHANGED <<reviewFrame, dsn, reviewVars>>

\* display(df): the frame as shown; print(text): the text.
Frame(df) == [shown |-> "frame", rows |-> df]
Printed(text) == [shown |-> "text", text |-> text]

\* if not df.empty: display(df) / else: print(text)
DisplayOrPrint(df, text) == IF df # <<>> THEN Frame(df) ELSE Printed(text)

\* The cell under "CAPM Catalog", run after the cell that fetches.
DisplayCatalog ==
    /\ notebook = "review"
    /\ pc = "idle"
    /\ conn # "unset"
    /\ displayed' = [displayed EXCEPT
           !.catalog = DisplayOrPrint(catalog_df, "No catalog data loaded.")]
    /\ UNCHANGED <<reviewFrame, dsn, conn, txn, locks, pc, log, out, catalog_df,
                   content_summary_df>>

\* The cell under "CAPM Content Summaries", run after the cell that fetches.
DisplayContent ==
    /\ notebook = "review"
    /\ pc = "idle"
    /\ conn # "unset"
    /\ displayed' = [displayed EXCEPT
           !.content = DisplayOrPrint(content_summary_df,
                                      "No content summary data loaded.")]
    /\ UNCHANGED <<reviewFrame, dsn, conn, txn, locks, pc, log, out, catalog_df,
                   content_summary_df>>

NextDisplay ==
    \/ DisplayCatalog
    \/ DisplayContent

InitReview ==
    /\ notebook = "review"
    /\ catalog_columns = CatalogColumns \cup AddedColumns
    /\ content_columns = ContentTableColumns
    /\ extensions = {}
    /\ available = {}
    /\ \E db \in PreExisting :
         /\ apg_catalog = db.catalog
         /\ apg_content = db.content
    /\ tx_catalog = apg_catalog
    /\ tx_content = apg_content
    /\ pre_catalog = apg_catalog
    /\ pre_content = apg_content
    /\ InitIdle

NextReview ==
    \/ ReviewCell
    \/ ReviewConnect
    \/ CatalogQuery
    \/ ContentQuery
    \/ ReviewFinally

\* The rows the lookups are tried on: every table of at most MaxLookupRows
\* rows over two sources, two documents and two sections, in any heap order.
LookupSources == {"internal_capm", "internal_wiki"}
LookupNames == {"IAS_12_IncomeTaxes", "IFRS_15_Revenue"}
LookupSections == {0, 1}

LookupRows ==
    {ContentRow(s, "capm", n, i) : s \in LookupSources, n \in LookupNames,
                                   i \in LookupSections}

Tables(rows, n) == UNION {[1..k -> rows] : k \in 0..n}

InitLookup ==
    /\ notebook = "review"
    /\ catalog_columns = CatalogColumns \cup AddedColumns
    /\ content_columns = ContentTableColumns
    /\ extensions = {}
    /\ available = {}
    /\ apg_content \in Tables(LookupRows, MaxLookupRows)
    /\ apg_catalog \in {<<>>, CapmCatalog, CapmCatalog \o catalog_records}
    /\ tx_catalog = apg_catalog
    /\ tx_content = apg_content
    /\ pre_catalog = apg_catalog
    /\ pre_content = apg_content
    /\ InitIdle

SpecLookup == InitLookup /\ [][NextReview]_vars

\* The catalogs the catalog lookup is tried on: every table of at most
\* MaxLookupRows rows over two sources and the three document names, in any
\* heap order, the same document possibly more than once.
LookupCatalogRows ==
    {CatalogRow(s, "capm", NameOrder[i]) : s \in LookupSources,
                                          i \in 1..Len(NameOrder)}

InitCatalogLookup ==
    /\ notebook = "review"
    /\ catalog_columns = CatalogColumns \cup AddedColumns
    /\ content_columns = ContentTableColumns
    /\ extensions = {}
    /\ available = {}
    /\ apg_catalog \in Tables(LookupCatalogRows, MaxLookupRows)
    /\ apg_content \in {<<>>, CapmContent}
    /\ tx_catalog = apg_catalog
    /\ tx_content = apg_content
    /\ pre_catalog = apg_catalog
    /\ pre_content = apg_content
    /\ InitIdle

SpecCatalogLookup == InitCatalogLookup /\ [][NextReview]_vars

-----------------------------------------------------------------------------
(* The script alter_schema.sql applied to a database.  A schema gives each *)
(* table its column set, {} while the table does not exist.                *)

\* The statements of the script, in the order of the file.
alter_schema ==
    << [statement |-> "ADD COLUMN", table |-> "apg_catalog",
        columns |-> {"document_usage"}],
       [statement |-> "ADD COLUMN", table |-> "apg_catalog",
        columns |-> {"file_link"}],
       [statement |-> "CREATE TABLE", table |-> "apg_catalog",
        columns |-> CatalogColumns],
       [statement |-> "CREATE TABLE", table |-> "apg_content",
        columns |-> ContentTableColumns] >>

Schema == [apg_catalog |-> catalog_columns, apg_content |-> content_columns]

\* One statement on a schema.  ALTER TABLE ... ADD COLUMN is rejected when
\* the table does not exist or has the column; CREATE TABLE (without IF NOT
\* EXISTS) is rejected when the table exists.
Execute(schema, st) ==
    IF st.statement = "CREATE TABLE"
    THEN IF schema[st.table] # {}
         THEN [ok |-> FALSE, schema |-> schema]
         ELSE [ok |-> TRUE, schema |-> [schema EXCEPT ![st.table] = st.columns]]
    ELSE IF schema[st.table] = {} \/ st.columns \subseteq schema[st.table]
         THEN [ok |-> FALSE, schema |-> schema]
         ELSE [ok |-> TRUE,
               schema |-> [schema EXCEPT ![st.table] = @ \cup st.columns]]

\* How a client runs a script: psql goes on after a rejected statement
\* ("continue") or stops at it (ON_ERROR_STOP, "stop"), each statement
\* committed by itself; or the script runs as one transaction, which a
\* rejected statement aborts ("transaction").
ScriptModes == {"continue", "stop", "transaction"}

\* The statements from the i-th on: the schema they leave and the outcome
\* of each statement that was run.
RECURSIVE RunScript(_, _, _)
RunScript(schema, i, mode) ==
    IF i > Len(alter_schema)
    THEN [schema |-> schema, outcomes |-> <<>>]
    ELSE LET r == Execute(schema, alter_schema[i])
         IN  IF r.ok \/ mode = "continue"
             THEN LET rest == RunScript(r.schema, i + 1, mode)
                  IN  [schema |-> rest.schema,
                       outcomes |-> <<IF r.ok THEN "ok" ELSE "ERROR">>
                                        \o rest.outcomes]
             ELSE [schema |-> schema, outcomes |-> <<"ERROR">>]

\* The whole script applied in one of the modes; log holds the outcome of
\* every statement that was run, before the database as the script found it.
ApplyScript ==
    /\ pc = "idle"
    /\ notebook = "schema"
    /\ \E mode \in ScriptModes :
         LET run == RunScript(Schema, 1, mode)
             failed == \E i \in 1..Len(run.outcomes) : run.outcomes[i] = "ERROR"
             final == IF mode = "transaction" /\ failed THEN Schema ELSE run.schema
         IN  /\ catalog_columns' = final.apg_catalog
             /\ content_columns' = final.apg_content
             /\ log' = [i \in 1..Len(run.outcomes) |->
                            <<alter_schema[i].statement, run.outcomes[i]>>]
             /\ raised' = failed
    /\ before' = Snapshot
    /\ out' = {}
    /\ UNCHANGED <<notebook, chatVars, dsn, apg_catalog, apg_content, extensions, available,
                   conn, txn, locks, mainTxVars, testVars, pc, probe, result,
                   reloadVars, reviewVars>>

\* The databases the script is applied to: an empty one, one where the
\* tables exist as the script creates them, and one where they exist with
\* the added columns.
InitSchema ==
    /\ notebook = "schema"
    /\ \/ /\ catalog_columns = {}
          /\ content_columns = {}
          /\ apg_catalog = <<>>
          /\ apg_content = <<>>
       \/ /\ catalog_columns \in {CatalogColumns, CatalogColumns \cup AddedColumns}
          /\ content_columns = ContentTableColumns
          /\ \E db \in PreExisting :
               /\ apg_catalog = db.catalog
               /\ apg_content = db.content
    /\ extensions = {}
    /\ available = {}
    /\ tx_catalog = apg_catalog
    /\ tx_content = apg_content
    /\ pre_catalog = apg_catalog
    /\ pre_content = apg_content
    /\ InitIdle

NextSchema == ApplyScript

-----------------------------------------------------------------------------
(* The agent pipeline of model(): Router, Clarifier, Planner, database     *)
(* subagents, Summarizer.  trace holds the events of one conversation as   *)
(* pairs <<event, detail>>.                                                *)

\* Sources with a dedicated subagent.
Databases == {"internal_wiki", "internal_capm", "external_iasb", "external_kpmg"}

notebookVars == <<notebook, dbVars, conn, txn, locks, mainTxVars, testVars, pc, probe,
                  log, out, raised, result, reloadVars, before, reviewVars, dsn>>
sessionVars == <<notebookVars, evalVars>>

Emit(event, detail) == Append(trace, <<event, detail>>)

\* model(conversation) is called: a new conversation enters the pipeline.
Conversation ==
    /\ notebook = "chat"
    /\ stage \in {"none", "responded"}
    /\ stage' = "router"
    /\ trace' = <<>>
    /\ plan' = {}
    /\ running' = {}
    /\ returned' = {}
    /\ UNCHANGED sessionVars

\* Route: the query needs database research or can be answered directly.
Router ==
    /\ stage = "router"
    /\ \E decision \in {"response_from_conversation", "research_from_database"} :
         /\ trace' = Emit("router_decision", decision)
         /\ stage' = IF decision = "research_from_database"
                        THEN "clarifier" ELSE "direct_response"
    /\ UNCHANGED <<sessionVars, plan, running, returned>>

\* Direct Response: the answer is composed from the conversation alone.
DirectResponse ==
    /\ stage = "direct_response"
    /\ trace' = Emit("response", "direct")
    /\ stage' = "responded"
    /\ UNCHANGED <<sessionVars, plan, running, returned>>

ClarifierAsksAndGoesOn ==
    /\ stage = "clarifier"
    /\ \E decision \in {"request_essential_context", "create_research_statement"} :
         IF decision = "request_essential_context"
         THEN trace' = Emit("clarifier_decision", decision) \o
                           << <<"response", "question">> >>
         ELSE trace' = Emit("clarifier_decision", decision)
    /\ stage' = "planner"
    /\ UNCHANGED <<sessionVars, plan, running, returned>>

\* Clarify: the research goal is settled, or a question goes back to the
\* user and the turn ends.
Clarifier ==
    /\ stage = "clarifier"
    /\ \E decision \in {"request_essential_context", "create_research_statement"} :
         IF decision = "request_essential_context"
         THEN /\ trace' = Emit("clarifier_decision", decision) \o
                              << <<"response", "question">> >>
              /\ stage' = "responded"
         ELSE /\ trace' = Emit("clarifier_decision", decision)
              /\ stage' = "planner"
    /\ UNCHANGED <<sessionVars, plan, running, returned>>

\* Plan: the set of sources to query.
Planner ==
    /\ stage = "planner"
    /\ \E selected \in SUBSET Databases :
         /\ Cardinality(selected) <= MaxSelected
         /\ plan' = selected
    /\ trace' = Emit("query_plan", "planner")
    /\ stage' = "query"
    /\ UNCHANGED <<sessionVars, running, returned>>

\* Query: the subagent of a selected source starts its query; the
\* subagents of one plan run concurrently.
StartSubagent(source) ==
    /\ stage = "query"
    /\ source \in plan
    /\ source \notin running \cup returned
    /\ running' = running \cup {source}
    /\ trace' = Emit("query", source)
    /\ UNCHANGED <<sessionVars, stage, plan, returned>>

\* A running subagent returns its result.
SubagentReturns(source) ==
    /\ stage = "query"
    /\ source \in running
    /\ running' = running \ {source}
    /\ returned' = returned \cup {source}
    /\ trace' = Emit("result", source)
    /\ UNCHANGED <<sessionVars, stage, plan>>

SummarizeFirstResult ==
    /\ stage = "query"
    /\ returned # {} \/ plan = {}
    /\ trace' = Emit("response", "summary")
    /\ stage' = "responded"
    /\ UNCHANGED <<sessionVars, plan, running, returned>>

\* Summarize: the findings of all selected sources are composed into the
\* one response.
Summarizer ==
    /\ stage = "query"
    /\ returned = plan
    /\ trace' = Emit("response", "summary")
    /\ stage' = "responded"
    /\ UNCHANGED <<sessionVars, plan, running, returned>>

InitPipeline ==
    /\ notebook = "chat"
    /\ catalog_columns = CatalogColumns \cup AddedColumns
    /\ content_columns = ContentTableColumns
    /\ extensions = {}
    /\ available = {}
    /\ apg_catalog = catalog_records
    /\ apg_content = content_records
    /\ tx_catalog = apg_catalog
    /\ tx_content = apg_content
    /\ pre_catalog = apg_catalog
    /\ pre_content = apg_content
    /\ InitIdle

NextPipeline ==
    \/ Conversation
    \/ Router
    \/ DirectResponse
    \/ Clarifier
    \/ Planner
    \/ \E source \in Databases : StartSubagent(source)
    \/ \E source \in Databases : SubagentReturns(source)
    \/ Summarizer

-----------------------------------------------------------------------------
(* The evaluation notebook: run_test_case consumes the generator model()   *)
(* returns.  A chunk is a dictionary, a function on the keys it has; text  *)
(* is a string; a record the function returns is a dictionary too.         *)

\* The chunks a generator is made of: with and without each of the keys
\* run_test_case reads, the response text empty or not.
Chunks ==
    { [type |-> "research"],
      [stage |-> "router_decision"],
      [stage |-> "query_plan", response_chunk |-> "a"],
      [response_chunk |-> "b"],
      [response_chunk |-> ""],
      [type |-> "research", stage |-> "clarifier_decision", response_chunk |-> "c"] }

\* How model() behaves: the call returns a generator or raises; the
\* generator yields at most n chunks and then is exhausted or raises.
Generators(n) ==
    {NotCalled} \cup
    {[call |-> "returns", chunks |-> c, end |-> e] :
        c \in Tables(Chunks, n), e \in {"exhausted", "raises"}}

\* chunk.get(key, default)
Get(chunk, key, default) ==
    IF key \in DOMAIN chunk THEN chunk[key] ELSE default

\* str(e): StopIteration() has no message.
Str(e) == IF e = "StopIteration" THEN "" ELSE e

LoopOverwrites(chunks) ==
    IF chunks = <<>>
    THEN [stages |-> <<>>, response_text |-> ""]
    ELSE LET chunk == chunks[Len(chunks)]
         IN  [stages |->
                 IF "stage" \in DOMAIN chunk
                 THEN <<[name |-> Get(chunk, "stage", "unknown"),
                         details |-> chunk]>>
                 ELSE <<>>,
              response_text |-> Get(chunk, "response_chunk", "")]

\* for chunk in result_generator: the stages and the response_text after
\* the given chunks.
RECURSIVE Loop(_)
Loop(chunks) ==
    IF chunks = <<>>
    THEN [stages |-> <<>>, response_text |-> ""]
    ELSE LET sofar == Loop(SubSeq(chunks, 1, Len(chunks) - 1))
             chunk == chunks[Len(chunks)]
         IN  [stages |->
                 IF "stage" \in DOMAIN chunk
                 THEN Append(sofar.stages,
                             [name |-> Get(chunk, "stage", "unknown"),
                              details |-> chunk])
                 ELSE sofar.stages,
              response_text |->
                 IF Get(chunk, "response_chunk", "") # ""
                 THEN sofar.response_text \o chunk.response_chunk
                 ELSE sofar.response_text]

SetFinalResponseFirst(results, gen) ==
    IF gen.call = "raises"
    THEN results @@ ("error" :> Str("model failed"))
    ELSE IF gen.chunks = <<>>
    THEN results @@ ("error" :> Str(IF gen.end = "exhausted"
                                    THEN "StopIteration" ELSE "generator failed"))
    ELSE LET loop == Loop(Tail(gen.chunks))
             collected ==
                 [results EXCEPT
                     !.response_type = Get(gen.chunks[1], "type", "None"),
                     !.stages = loop.stages,
                     !.final_response = loop.response_text]
         IN  IF gen.end = "raises"
             THEN collected @@ ("error" :> Str("generator failed"))
             ELSE collected

\* The try block: results after it, with "error" when it raised.
Try(results, gen) ==
    IF gen.call = "raises"
    THEN results @@ ("error" :> Str("model failed"))
    ELSE IF gen.chunks = <<>>
    THEN results @@ ("error" :> Str(IF gen.end = "exhausted"
                                    THEN "StopIteration" ELSE "generator failed"))
    ELSE LET loop == Loop(Tail(gen.chunks))
             collected ==
                 [results EXCEPT
                     !.response_type = Get(gen.chunks[1], "type", "None"),
                     !.stages = loop.stages]
         IN  IF gen.end = "raises"
             THEN collected @@ ("error" :> Str("generator failed"))
             ELSE [collected EXCEPT !.final_response = loop.response_text]

RunWithoutTry(test_case, gen, start_time, end_time) ==
    IF gen.call = "raises" \/ gen.chunks = <<>> \/ gen.end = "raises"
    THEN NoResult
    ELSE Try([id |-> test_case.id, description |-> test_case.description,
              start_time |-> start_time, stages |-> <<>>,
              final_response |-> "", response_type |-> ""], gen) @@
             [end_time |-> end_time, duration |-> end_time - start_time]

\* run_test_case(test_case), started at start_time and returning at
\* end_time.
run_test_case(test_case, gen, start_time, end_time) ==
    LET results ==
            [id |-> test_case.id, description |-> test_case.description,
             start_time |-> start_time, stages |-> <<>>,
             final_response |-> "", response_type |-> ""]
    IN  Try(results, gen) @@
            [end_time |-> end_time, duration |-> end_time - start_time]

\* A cell that calls run_test_case on one of the test cases.
RunTestCase ==
    /\ notebook = "evaluation"
    /\ pc = "idle"
    /\ \E i \in 1..Len(test_cases), elapsed \in 0..(MaxClock - clock) :
         /\ sample_result' =
                run_test_case(test_cases[i], generator, clock, clock + elapsed)
         /\ clock' = clock + elapsed
    /\ UNCHANGED <<notebookVars, pipelineVars, generator, tests, test_df,
                   compareVars, batchVars>>

\* The ids and descriptions add_test_case is called with: an id of the
\* sample list and the id of the notebook's example.
NewTestIds == {"TC001", "TC004"}
NewDescriptions == {"IFRS vs GAAP comparison", "Internal controls query"}

AppendOnly(list, test_id, description) ==
    Append(list, [id |-> test_id, description |-> description])

\* add_test_case: test_cases after the call.
add_test_case(list, test_id, description) ==
    LET new_test == [id |-> test_id, description |-> description]
        existing_ids == {list[i].id : i \in 1..Len(list)}
        kept == IF test_id \in existing_ids
                THEN SelectSeq(list, LAMBDA tc : tc.id # test_id)
                ELSE list
    IN  Append(kept, new_test)

\* A cell that calls add_test_case; test_df is rebuilt from the list.
AddTestCase ==
    /\ notebook = "evaluation"
    /\ pc = "idle"
    /\ \E test_id \in NewTestIds, description \in NewDescriptions :
         tests' = add_test_case(tests, test_id, description)
    /\ test_df' = DataFrame(tests')
    /\ UNCHANGED <<notebookVars, pipelineVars, generator, clock, sample_result,
                   compareVars, batchVars>>

InitEvaluationKernel ==
    /\ notebook = "evaluation"
    /\ catalog_columns = CatalogColumns \cup AddedColumns
    /\ content_columns = ContentTableColumns
    /\ extensions = {}
    /\ available = {}
    /\ apg_catalog = catalog_records
    /\ apg_content = content_records
    /\ tx_catalog = apg_catalog
    /\ tx_content = apg_content
    /\ pre_catalog = apg_catalog
    /\ pre_content = apg_content
    /\ InitKernel
    /\ clock = 0
    /\ sample_result = NoResult

\* The list is the sample list.
InitSampleList ==
    /\ tests = test_cases
    /\ test_df = DataFrame(test_cases)

InitEvaluationDatabase ==
    /\ InitEvaluationKernel
    /\ InitSampleList
    /\ InitCompareIdle
    /\ InitBatchIdle

\* In Spec the generator yields at most one chunk.
InitEvaluation ==
    /\ InitEvaluationDatabase
    /\ generator \in Generators(1)

\* --- compare_results ---

\* The number of stages of a result and of items of an expected list.
MaxStages == 2
MaxItems == 2

\* A str item is its sequence of characters.
item_ab == <<"a", "b">>
item_B == <<"B">>
item_xAb == <<"x", "A", "b">>
item_a == <<"a">>

\* str.lower()
lower(chars) ==
    [i \in 1..Len(chars) |->
        CASE chars[i] = "A" -> "a"
          [] chars[i] = "B" -> "b"
          [] OTHER -> chars[i]]

\* part in whole, for strs
Substring(part, whole) ==
    \E k \in 0..(Len(whole) - Len(part)) :
        SubSeq(whole, k + 1, k + Len(part)) = part

\* Sequences of at most n elements of S.
SeqsUpTo(S, n) == UNION {[1..k -> S] : k \in 0..n}

\* The lists a stage carries as context_questions, and the databases of
\* its queries: str items and None.
ActualLists ==
    { <<>>, <<None>>, <<Text(item_xAb)>>, <<Text(item_a), None, Text(item_B)>> }

\* The stages of a result: name and details (the chunk, whose "stage" is
\* the name).
Stage(name, more) == [name |-> name, details |-> [stage |-> name] @@ more]

StageRecords ==
    {Stage("router_decision", [decision |-> Text(d)]) :
        d \in {"research_from_database", ""}}
    \cup {Stage("router_decision", <<>>)}
    \cup {Stage("clarifier_decision",
                [decision |-> Text("request_essential_context")])}
    \cup {Stage("clarifier_decision",
                [decision |-> Text("create_research_statement"),
                 context_questions |-> l]) : l \in ActualLists \ {<<>>}}
    \cup {Stage("query_plan",
                [queries |-> [i \in 1..Len(l) |->
                    IF l[i] = None THEN [query |-> Text(item_a)]
                    ELSE [query |-> Text(item_a), database |-> l[i]]]]) :
            l \in ActualLists \ {<<>>}}
    \cup {Stage("query_plan", <<>>), Stage("summary", <<>>)}

\* The "expected" dictionaries of test cases: the keys of the sample test
\* cases, or router and clarifier only, or none.
ExpectedOutcomes ==
    {[router |-> Text(r), clarifier |-> Text("request_essential_context")] :
        r \in {"research_from_database", ""}}
    \cup {[router |-> Text("research_from_database"),
           clarifier |-> Text("request_essential_context"),
           requested_context |-> l,
           databases |-> <<item_ab>>] : l \in SeqsUpTo({item_ab, item_B}, MaxItems)}
    \cup {<<>>}

\* for stage in result.get("stages", []): the actual values after the
\* given stages.
RECURSIVE Actual(_)
Actual(stages) ==
    IF stages = <<>>
    THEN [router |-> None, clarifier |-> None,
          requested_context |-> <<>>, databases |-> <<>>]
    ELSE LET actual == Actual(SubSeq(stages, 1, Len(stages) - 1))
             last_stage == stages[Len(stages)]
             details == last_stage.details
         IN  CASE last_stage.name = "router_decision" ->
                    [actual EXCEPT !.router = Get(details, "decision", None)]
               [] last_stage.name = "clarifier_decision" ->
                    [actual EXCEPT
                        !.clarifier = Get(details, "decision", None),
                        !.requested_context =
                            IF "context_questions" \in DOMAIN details
                            THEN details.context_questions
                            ELSE @]
               [] last_stage.name = "query_plan" ->
                    [actual EXCEPT
                        !.databases =
                            IF "queries" \in DOMAIN details
                            THEN [i \in 1..Len(details.queries) |->
                                     Get(details.queries[i], "database", None)]
                            ELSE @]
               [] OTHER -> actual

\* sum(matches)
RECURSIVE Sum(_)
Sum(matches) ==
    IF matches = <<>> THEN 0
    ELSE (IF Head(matches) THEN 1 ELSE 0) + Sum(Tail(matches))

\* sum(matches) / len(matches) if matches else 0, as numerator and
\* denominator.
Percentage(matches) ==
    IF matches = <<>> THEN [num |-> 0, den |-> 1]
    ELSE [num |-> Sum(matches), den |-> Len(matches)]

IsOne(match_percentage) == match_percentage.num = match_percentage.den

FoundCaseSensitive(exp_item, actual_value) ==
    \E j \in 1..Len(actual_value) :
        /\ actual_value[j].type = "str"
        /\ Substring(exp_item, actual_value[j].value)

\* The inner loop over actual_value: found.
Found(exp_item, actual_value) ==
    \E j \in 1..Len(actual_value) :
        /\ actual_value[j].type = "str"
        /\ Substring(lower(exp_item), lower(actual_value[j].value))

\* The branch for the keys requested_context and databases.
CompareList(expected_value, actual_value) ==
    LET matches == [i \in 1..Len(expected_value) |->
                       Found(expected_value[i], actual_value)]
        match_percentage == Percentage(matches)
    IN  [expected |-> expected_value,
         actual |-> actual_value,
         match |-> IsOne(match_percentage),
         match_percentage |-> match_percentage]

\* `if value`: None and the empty str are false.
NonEmpty(value) == value # None /\ value # Text("")

EqualOnly(expected_value, actual_value) ==
    [expected |-> expected_value,
     actual |-> actual_value,
     match |-> expected_value = actual_value]

\* The branch for the other keys.
CompareSimple(expected_value, actual_value) ==
    [expected |-> expected_value,
     actual |-> actual_value,
     match |-> IF NonEmpty(actual_value) /\ NonEmpty(expected_value)
               THEN expected_value = actual_value
               ELSE FALSE]

ListKeys == {"requested_context", "databases"}

\* compare_results(test_case_id, result), expected_outcome being the
\* "expected" of the test case of that id in the list: the comparison
\* returned and the overall match printed; None when no test case has the id.
compare_results(list, id, expected_outcome, res) ==
    IF \A i \in 1..Len(list) : list[i].id # id
    THEN [comparison |-> None, match_percentage |-> None]
    ELSE LET actual == Actual(Get(res, "stages", <<>>))
             comp == [key \in DOMAIN expected_outcome |->
                         IF key \in ListKeys
                         THEN CompareList(expected_outcome[key], actual[key])
                         ELSE CompareSimple(expected_outcome[key],
                                            Get(actual, key, None))]
             keys == DOMAIN comp
             n == Cardinality({key \in keys : comp[key].match})
         IN  [comparison |-> comp,
              match_percentage |->
                  IF keys = {} THEN [num |-> 0, den |-> 1]
                  ELSE [num |-> n, den |-> Cardinality(keys)]]

\* A cell that calls compare_results.
CompareResults ==
    /\ notebook = "evaluation"
    /\ pc = "idle"
    /\ LET returned_value ==
               compare_results(tests, test_case_id, expected, detailed_result)
       IN  /\ comparison' = returned_value.comparison
           /\ overall' = returned_value.match_percentage
    /\ UNCHANGED <<notebookVars, pipelineVars, generator, clock, sample_result,
                   tests, test_df, test_case_id, expected, detailed_result,
                   batchVars>>

\* compare_results on the results of at most MaxStages stages and the
\* expected outcomes of lists of at most MaxItems items.
InitCompareResults ==
    /\ InitEvaluationKernel
    /\ InitSampleList
    /\ generator = NotCalled
    /\ test_case_id \in {"TC001", "TC009"}
    /\ expected \in ExpectedOutcomes
    /\ \E stages \in SeqsUpTo(StageRecords, MaxStages) :
          detailed_result = [id |-> "TC001", stages |-> stages]
    /\ comparison = None
    /\ overall = None
    /\ InitBatchIdle

SpecCompare == InitCompareResults /\ [][CompareResults]_vars

\* --- run_all_tests ---

StopAtFirstError(list, gens, start_time, elapsed) ==
    LET all == [i \in 1..Len(list) |->
                   run_test_case(list[i], gens[i],
                                 start_time + (i - 1) * elapsed,
                                 start_time + i * elapsed)]
        failed == {i \in 1..Len(list) : "error" \in DOMAIN all[i]}
    IN  IF failed = {} THEN all
        ELSE SubSeq(all, 1, (CHOOSE i \in failed :
                                \A j \in failed : i <= j) - 1)

\* run_all_tests(test_cases): the i-th call of run_test_case meets the i-th
\* behaviour of model(); every call takes the same time.
run_all_tests(list, gens, start_time, elapsed) ==
    [i \in 1..Len(list) |->
        run_test_case(list[i], gens[i],
                      start_time + (i - 1) * elapsed,
                      start_time + i * elapsed)]

\* A cell that calls run_all_tests(test_cases).
RunAllTests ==
    /\ notebook = "evaluation"
    /\ pc = "idle"
    /\ Len(generators) = Len(tests)
    /\ clock < MaxClock
    /\ \E elapsed \in 0..1 :
         /\ all_results' = run_all_tests(tests, generators, clock, elapsed)
         /\ clock' = clock + Len(tests) * elapsed
    /\ UNCHANGED <<notebookVars, pipelineVars, generator, sample_result,
                   tests, test_df, compareVars, generators>>

\* The lists run_all_tests is called with: the first test cases of the
\* sample list, or the sample list backwards.
InputLists ==
    {SubSeq(test_cases, 1, k) : k \in 0..Len(test_cases)}
    \cup {[i \in 1..Len(test_cases) |-> test_cases[Len(test_cases) + 1 - i]]}

\* run_all_tests on these lists with every behaviour of model() per test
\* case.
InitRunAllTests ==
    /\ InitEvaluationKernel
    /\ InitCompareIdle
    /\ generator = NotCalled
    /\ \E list \in InputLists :
          /\ tests = list
          /\ test_df = DataFrame(list)
          /\ generators \in [1..Len(list) -> Generators(1)]
    /\ all_results = NotReturned

SpecRunAll == InitRunAllTests /\ [][RunAllTests]_vars

NextEvaluation ==
    \/ RunTestCase
    \/ AddTestCase

\* run_test_case on every generator of at most MaxChunks chunks.
InitRunTestCase ==
    /\ InitEvaluationDatabase
    /\ generator \in Generators(MaxChunks)

SpecEvaluation == InitRunTestCase /\ [][RunTestCase]_vars

Init ==
    \/ InitReset
    \/ InitPermissions
    \/ InitReview
    \/ InitSchema
    \/ InitPipeline
    \/ InitEvaluation

Next ==
    \/ NextReset
    \/ NextPermissions
    \/ NextReview
    \/ NextDisplay
    \/ NextSchema
    \/ NextPipeline
    \/ NextEvaluation

Spec == Init /\ [][Next]_vars

-----------------------------------------------------------------------------
(* Claims about the reset notebook, checked under Spec.                    *)

CatalogMatches(row) ==
    {j \in 1..Len(apg_catalog) : DocKey(apg_catalog[j]) = DocKey(row)}

\* C1: when a step of the clear / catalog / content reload fails, the
\* committed tables hold either what they held before the reload or the
\* complete fixture, never an intermediate state.
C1_ReloadIsTransactional ==
    reload = "failed" =>
        \/ apg_catalog = pre_catalog /\ apg_content = pre_content
        \/ apg_catalog = catalog_records /\ apg_content = content_records

\* C2: in every committed state every apg_content row has exactly one
\* apg_catalog row with the same (source, type, name).
C2_ContentHasOneCatalogRow ==
    \A i \in 1..Len(apg_content) :
        Cardinality(CatalogMatches(apg_content[i])) = 1

\* C3: in every committed state no two apg_content rows of one document
\* have the same section_id.
C3_SectionIdUniqueInDocument ==
    \A i, j \in 1..Len(apg_content) :
        (/\ i # j
         /\ DocKey(apg_content[i]) = DocKey(apg_content[j]))
            => apg_content[i].section_id # apg_content[j].section_id

\* C4: in every committed state no two apg_catalog rows have the same
\* (source, type, name).
C4_DocumentKeyUnique ==
    \A i, j \in 1..Len(apg_catalog) :
        i # j => DocKey(apg_catalog[i]) # DocKey(apg_catalog[j])

\* C5: after a reload that ran to completion (clear, then catalog inserts,
\* then content inserts, each committed) apg_catalog has 3 rows and
\* apg_content has 6, the counts of the fixture, whatever was there before.
C5_ReloadCountsMatchFixture ==
    reload = "complete" =>
        /\ Len(apg_catalog) = 3
        /\ Len(apg_content) = 6
        /\ Len(apg_catalog) = Len(catalog_records)
        /\ Len(apg_content) = Len(content_records)

\* A completed reload of tables that held other rows, in other numbers.
C5_Witness ==
    /\ reload = "complete"
    /\ Len(pre_catalog) \notin {0, 3}
    /\ Len(pre_content) \notin {0, 6}
    /\ raised = FALSE

-----------------------------------------------------------------------------
(* Claims about the privileges notebook and the review notebook, checked   *)
(* under Spec.                                                             *)

LogHas(event) == \E i \in 1..Len(log) : log[i] = event

\* C6: a schema probe leaves the database as it found it: while it runs and
\* after it returned, the row counts of both tables, the columns of
\* apg_catalog and the installed extensions are those of its start, whether
\* its statement succeeded or failed.
C6_ProbeLeavesDatabaseUnchanged ==
    probe # "none" => Snapshot = before

\* The CREATE EXTENSION probe returned after its statement had succeeded on
\* a server where the extension was not installed.
C6_Witness ==
    /\ probe = "pgvector"
    /\ pc = "idle"
    /\ result = "NULL"
    /\ Message("test successful") \in out
    /\ LogHas(<<"test_conn", "ddl">>)
    /\ LogHas(<<"test_conn", "close">>)

\* C7: a probe issues its schema statement only on a dedicated connection
\* it opened itself, never commits, and when it returns every dedicated
\* connection it opened has been rolled back and then closed, on the
\* success path and on the exception path.
C7_DedicatedConnectionReleased ==
    notebook = "permissions" =>
        /\ \A i \in 1..Len(log) :
              /\ log[i][2] # "commit"
              /\ log[i][2] = "ddl" =>
                    /\ log[i][1] = "test_conn"
                    /\ \E j \in 1..(i - 1) : log[j] = <<"test_conn", "connect">>
        /\ pc = "idle" => test_conn # "open"
        /\ (pc = "idle" /\ LogHas(<<"test_conn", "connect">>)) =>
              /\ test_conn = "closed"
              /\ log[Len(log) - 1] = <<"test_conn", "rollback">>
              /\ log[Len(log)] = <<"test_conn", "close">>

\* A probe returned whose statement had raised on its dedicated connection.
C7_Witness ==
    /\ probe = "alter"
    /\ pc = "idle"
    /\ Message("test failed") \in out
    /\ LogHas(<<"test_conn", "ddl">>)
    /\ test_conn = "closed"

\* C8: test_vector_column_creation opens a dedicated connection and issues
\* its ALTER TABLE only after its check on conn found the vector extension
\* installed; otherwise it warns and returns without raising.
C8_VectorCheckedBeforeAlter ==
    probe = "vector_column" =>
        /\ log # <<>> /\ log[1] = <<"conn", "select">>
        /\ (\E i \in 1..Len(log) : log[i][1] = "test_conn") =>
              /\ result = "installed"
              /\ "vector" \in extensions
        /\ result # "installed" =>
              /\ pc = "idle"
              /\ raised = FALSE
              /\ Message("Cannot test vector column creation because the vector extension is not installed.") \in out

\* The probe returned on a server where the extension is available but not
\* installed.
C8_Witness ==
    /\ probe = "vector_column"
    /\ pc = "idle"
    /\ result = "NULL"
    /\ "vector" \in available
    /\ log = << <<"conn", "select">> >>

FailedConnect == << <<"conn", "connect_failed">> >>

-----------------------------------------------------------------------------
(* Claims about the lookups of the review notebook, checked under          *)
(* SpecLookup.                                                             *)

Count(seq, v) == Cardinality({i \in 1..Len(seq) : seq[i] = v})

ContentFetched == Message("Fetched content summary entries.") \in out

\* The selected columns of the apg_content rows of the requested source, in
\* heap order.
CapmContentRows ==
    LET rows == SelectSeq(apg_content,
                          LAMBDA r : r.document_source = "internal_capm")
    IN  [i \in 1..Len(rows) |->
            [document_name |-> rows[i].document_name,
             section_id |-> rows[i].section_id]]

\* C10: the content lookup returns the apg_content rows of source
\* internal_capm and no others, each as often as the table holds it,
\* ordered by document_name and, within one document_name, by ascending
\* section_id.
C10_ContentLookup ==
    ContentFetched =>
        /\ Len(content_summary_df) = Len(CapmContentRows)
        /\ \A i \in 1..Len(CapmContentRows) :
              Count(content_summary_df, CapmContentRows[i])
                  = Count(CapmContentRows, CapmContentRows[i])
        /\ \A i, j \in 1..Len(content_summary_df) :
              i < j =>
                \/ NameRank(content_summary_df[i].document_name)
                       < NameRank(content_summary_df[j].document_name)
                \/ /\ content_summary_df[i].document_name
                          = content_summary_df[j].document_name
                   /\ content_summary_df[i].section_id
                          <= content_summary_df[j].section_id

\* The lookup ran on a table that holds a row of another source and two
\* sections of one internal_capm document in descending heap order.
C10_Witness ==
    /\ ContentFetched
    /\ Len(apg_content) > Len(content_summary_df)
    /\ Len(CapmContentRows) >= 2
    /\ CapmContentRows[1].document_name = CapmContentRows[2].document_name
    /\ CapmContentRows[1].section_id > CapmContentRows[2].section_id

CatalogFetched == Message("Fetched catalog entries.") \in out

\* The selected columns of the apg_catalog rows of the requested source, in
\* heap order.
CapmCatalogRows ==
    LET rows == SelectSeq(apg_catalog,
                          LAMBDA r : r.document_source = "internal_capm")
    IN  [i \in 1..Len(rows) |-> [document_name |-> rows[i].document_name]]

\* C11: the catalog lookup returns the apg_catalog rows whose
\* document_source is the requested source internal_capm, each as often as
\* the table holds it and no row of another source, ordered by
\* document_name.
C11_CatalogLookup ==
    CatalogFetched =>
        /\ Len(catalog_df) = Len(CapmCatalogRows)
        /\ \A i \in 1..Len(CapmCatalogRows) :
              Count(catalog_df, CapmCatalogRows[i])
                  = Count(CapmCatalogRows, CapmCatalogRows[i])
        /\ \A i, j \in 1..Len(catalog_df) :
              i < j => NameRank(catalog_df[i].document_name)
                          <= NameRank(catalog_df[j].document_name)

\* The lookup ran on a catalog that holds a row of another source and two
\* internal_capm documents whose heap order is the reverse of their name
\* order.
C11_Witness ==
    /\ CatalogFetched
    /\ Len(apg_catalog) > Len(catalog_df)
    /\ Len(CapmCatalogRows) >= 2
    /\ NameRank(CapmCatalogRows[1].document_name)
           > NameRank(CapmCatalogRows[2].document_name)

-----------------------------------------------------------------------------
(* Claims about the review notebook as a whole, checked under Spec.        *)

\* C12: query-time access is read-only: no step of the review notebook
\* (connect, catalog query, content query, close; on success or on failure)
\* changes the rows of apg_catalog or apg_content, committed or as the
\* connection's transaction sees them, or the columns of either table.
C12_LookupsAreReadOnly ==
    [][notebook = "review" =>
          UNCHANGED <<apg_catalog, apg_content, tx_catalog, tx_content,
                      catalog_columns, content_columns>>]_vars

\* The review cell returned after the catalog query had succeeded on a
\* catalog with internal_capm rows and the content query had failed.
C12_Witness ==
    /\ notebook = "review"
    /\ pc = "idle"
    /\ conn = "closed"
    /\ CatalogFetched
    /\ catalog_df # <<>>
    /\ ~ContentFetched
    /\ Message("Error while connecting to or querying PostgreSQL") \in out
    /\ apg_content # <<>>

-----------------------------------------------------------------------------
(* Claims about alter_schema.sql, checked under Spec.                      *)

\* C13: after the script was applied to a database, apg_catalog has
\* exactly the fourteen documented columns (those of its CREATE TABLE and
\* document_usage, file_link) and apg_content exactly its nine, whether
\* the database was empty or already held the tables.
C13_ScriptYieldsDocumentedSchema ==
    (notebook = "schema" /\ log # <<>>) =>
        /\ catalog_columns = CatalogColumns \cup AddedColumns
        /\ content_columns = ContentTableColumns

-----------------------------------------------------------------------------
(* A further claim about the reset notebook, checked under Spec.           *)

SectionsOf(row) ==
    {j \in 1..Len(apg_content) : DocKey(apg_content[j]) = DocKey(row)}

\* C14: after a reload that ran to completion, the section_id values of
\* every document in apg_content are exactly 0, 1, ..., n-1, where n is the
\* number of rows apg_content holds for the document.
C14_SectionIdsContiguousFromZero ==
    reload = "complete" =>
        \A i \in 1..Len(apg_content) :
            {apg_content[j].section_id : j \in SectionsOf(apg_content[i])}
                = 0..(Cardinality(SectionsOf(apg_content[i])) - 1)

\* A completed reload of tables that held the fixture and other documents;
\* apg_content holds a document of one section and one of three.
C14_Witness ==
    /\ reload = "complete"
    /\ pre_content = CapmContent \o content_records
    /\ \E i, k \in 1..Len(apg_content) :
          /\ Cardinality(SectionsOf(apg_content[i])) = 1
          /\ Cardinality(SectionsOf(apg_content[k])) = 3

-----------------------------------------------------------------------------
(* Claims about the connection parameters, checked under Spec.             *)

\* C15: the parameters resolved for the environment key "local" are host
\* localhost, port 5432 and database maven-finance, and every connection a
\* notebook attempts for that key, the main one and a probe's dedicated
\* one, is attempted with exactly the resolved parameters.
C15_LocalConnectionParameters ==
    dsn.env = "local" =>
        /\ dsn.params = get_db_params("local")
        /\ dsn.params.host = "localhost"
        /\ dsn.params.port = 5432
        /\ dsn.params.dbname = "maven-finance"

\* A probe of the privileges notebook has opened its dedicated connection.
C15_Witness ==
    /\ notebook = "permissions"
    /\ probe = "alter"
    /\ pc = "execute"
    /\ test_conn = "open"
    /\ dsn.env = "local"

-----------------------------------------------------------------------------
(* Claims about the agent pipeline, checked under Spec.                    *)

TraceHas(event, detail) ==
    \E i \in 1..Len(trace) : trace[i] = <<event, detail>>

Events(event) == {i \in 1..Len(trace) : trace[i][1] = event}

\* The place of an event in the order Router, Clarifier, Planner,
\* subagent queries, response.
StageRank(event) ==
    CASE event = "router_decision" -> 1
      [] event = "clarifier_decision" -> 2
      [] event = "query_plan" -> 3
      [] event \in {"query", "result"} -> 4
      [] event = "response" -> 5

QueriesOf(source) ==
    Cardinality({i \in 1..Len(trace) : trace[i] = <<"query", source>>})

\* C17: only selected sources are queried and none more than once; the
\* Summarizer responds only when every selected source has been queried
\* exactly once and every subagent has returned its result, whatever the
\* order of the returns; and there is one response.
C17_SummarizerAfterAllSubagents ==
    /\ \A source \in Databases :
          /\ QueriesOf(source) <= 1
          /\ source \notin plan => QueriesOf(source) = 0
          /\ source \in running \cup returned <=> QueriesOf(source) = 1
    /\ running \cap returned = {}
    /\ TraceHas("response", "summary") =>
          /\ running = {}
          /\ returned = plan
          /\ \A source \in plan :
                /\ QueriesOf(source) = 1
                /\ \E i \in 1..(Len(trace) - 1) : trace[i] = <<"result", source>>
          /\ trace[Len(trace)] = <<"response", "summary">>
          /\ Cardinality(Events("response")) = 1

\* The Summarizer has responded after two subagents that ran at the same
\* time returned in the reverse of the order they were started in.
C17_Witness ==
    /\ TraceHas("response", "summary")
    /\ \E a, b \in plan :
          \E i, j, k, l \in 1..Len(trace) :
              /\ i < j /\ j < k /\ k < l
              /\ trace[i] = <<"query", a>>
              /\ trace[j] = <<"query", b>>
              /\ trace[k] = <<"result", b>>
              /\ trace[l] = <<"result", a>>

-----------------------------------------------------------------------------
(* Claims about run_test_case, checked under SpecEvaluation.               *)

\* model() raised, or the iteration of its generator did: at the first
\* next() of a generator that yields nothing, or where the generator
\* raises.
ExceptionOccurred ==
    \/ generator.call = "raises"
    \/ generator.chunks = <<>>
    \/ generator.end = "raises"

Returned == sample_result # NoResult

\* C18: every call of run_test_case returns a record, whether or not
\* model() or the iteration of its generator raised (an empty generator
\* included); the record has id, description, start_time, end_time and
\* duration = end_time - start_time, and it has the key "error" exactly
\* when an exception occurred.
C18_RunTestCaseAlwaysReturns ==
    [][notebook = "evaluation" =>
          /\ Returned'
          /\ {"id", "description", "start_time", "end_time", "duration"}
                 \subseteq DOMAIN sample_result'
          /\ \E i \in 1..Len(test_cases) :
                /\ sample_result'.id = test_cases[i].id
                /\ sample_result'.description = test_cases[i].description
          /\ sample_result'.start_time = clock
          /\ sample_result'.end_time = clock'
          /\ sample_result'.duration
                 = sample_result'.end_time - sample_result'.start_time
          /\ ("error" \in DOMAIN sample_result') <=> ExceptionOccurred]_vars

\* run_test_case returned on a generator that yields nothing, after time
\* had passed.
C18_Witness ==
    /\ Returned
    /\ generator = [call |-> "returns", chunks |-> <<>>, end |-> "exhausted"]
    /\ "error" \in DOMAIN sample_result
    /\ sample_result.duration > 0

\* The chunks after the first.
Remaining == Tail(generator.chunks)

HasStage(chunk) == "stage" \in DOMAIN chunk

HasText(chunk) ==
    /\ "response_chunk" \in DOMAIN chunk
    /\ chunk.response_chunk # ""

RECURSIVE Joined(_)
Joined(chunks) ==
    IF chunks = <<>> THEN ""
    ELSE Head(chunks).response_chunk \o Joined(Tail(chunks))

\* The remaining chunks that have a "stage" key, in emission order, as
\* entries of stages.
StagesOfRemaining ==
    LET staged == SelectSeq(Remaining, HasStage)
    IN  [k \in 1..Len(staged) |->
            [name |-> staged[k].stage, details |-> staged[k]]]

FirstChunk == generator.chunks[1]

TypeOfFirstChunk ==
    IF "type" \in DOMAIN FirstChunk THEN FirstChunk.type ELSE "None"

\* C19: when the generator has yielded a first chunk, response_type is that
\* chunk's "type", "None" if it has none, and the first chunk adds no stage
\* and no text; stages holds the remaining chunks that have a "stage" key,
\* in emission order; and when the generator ends without raising,
\* final_response is the concatenation in emission order of the non-empty
\* response_chunk values of the remaining chunks.
C19_FirstChunkIsMetadata ==
    (Returned /\ generator.call = "returns" /\ generator.chunks # <<>>) =>
        /\ sample_result.response_type = TypeOfFirstChunk
        /\ sample_result.stages = StagesOfRemaining
        /\ generator.end = "exhausted" =>
              sample_result.final_response
                  = Joined(SelectSeq(Remaining, HasText))

\* A run to normal completion whose first chunk had a stage and text, and
\* whose later chunks gave a stage and the texts "a" and "b" in that order.
C19_Witness ==
    /\ Returned
    /\ generator.end = "exhausted"
    /\ Len(generator.chunks) = 3
    /\ HasStage(FirstChunk) /\ HasText(FirstChunk)
    /\ sample_result.final_response = "ab"
    /\ Len(sample_result.stages) = 1

\* C20: when the generator raises after it has yielded chunks,
\* run_test_case returns with final_response the empty string, the stages
\* of the chunks received, the response_type of the first chunk, and an
\* "error" entry.
C20_TextDiscardedOnFailure ==
    (Returned /\ generator.call = "returns" /\ generator.chunks # <<>>
              /\ generator.end = "raises") =>
        /\ sample_result.final_response = ""
        /\ sample_result.stages = StagesOfRemaining
        /\ sample_result.response_type = TypeOfFirstChunk
        /\ "error" \in DOMAIN sample_result

\* The generator raised after chunks with a stage and with text had been
\* received.
C20_Witness ==
    /\ Returned
    /\ generator.end = "raises"
    /\ Len(generator.chunks) = 3
    /\ "type" \in DOMAIN FirstChunk
    /\ SelectSeq(Remaining, HasText) # <<>>
    /\ sample_result.stages # <<>>

-----------------------------------------------------------------------------
(* Claims about the other functions of the evaluation notebook, checked    *)
(* under Spec.                                                             *)

Ids(list) == {list[i].id : i \in 1..Len(list)}

DistinctIds(list) ==
    \A i, j \in 1..Len(list) : i # j => list[i].id # list[j].id

\* C21: every call of add_test_case on a list with distinct ids leaves a
\* list with distinct ids whose last entry is the new test case and whose
\* other entries are the earlier entries of other ids in their earlier
\* order (all of them when the id is new, so the length grows by one; all
\* but the one overwritten when the id existed, so the length stays), and
\* test_df has one row per entry of the list, in its order.
C21_AddTestCaseKeepsIdsUnique ==
    [][(notebook = "evaluation" /\ tests' # tests) =>
          /\ DistinctIds(tests')
          /\ LET new_test == tests'[Len(tests')]
                 others == SubSeq(tests', 1, Len(tests') - 1)
             IN  /\ new_test.id \notin Ids(others)
                 /\ others = SelectSeq(tests, LAMBDA tc : tc.id # new_test.id)
                 /\ new_test.id \notin Ids(tests) => others = tests
                 /\ new_test.id \in Ids(tests) => Len(tests') = Len(tests)
          /\ Len(test_df') = Len(tests')
          /\ \A i \in 1..Len(tests') :
                /\ test_df'[i].id = tests'[i].id
                /\ test_df'[i].description = tests'[i].description]_vars

\* An id of the sample list was overwritten after a new id had been added:
\* the list has four entries, the overwritten one last.
C21_Witness ==
    /\ notebook = "evaluation"
    /\ Len(tests) = 4
    /\ tests[Len(tests)] = [id |-> "TC001", description |-> "IFRS vs GAAP comparison"]
    /\ tests[1].id = "TC002"
    /\ Len(test_df) = 4

-----------------------------------------------------------------------------
(* Claims about compare_results, checked under SpecCompare.                *)

Compared == comparison # None

\* The expected items of a compared list key that are, ignoring case, part
\* of a str item of the actual list.
Hits(key) ==
    LET exp == comparison[key].expected
        act == comparison[key].actual
    IN  {i \in 1..Len(exp) :
            \E j \in 1..Len(act) :
                /\ act[j] # None
                /\ Substring(lower(exp[i]), lower(act[j].value))}

\* C22: for the keys requested_context and databases, match_percentage is
\* the number of expected items that are a case-insensitive substring of
\* some actual str item over the number of expected items, match is true
\* exactly when all of them are, and an empty expected list gives 0 and
\* false; an actual item that is None matches nothing.
C22_ListKeysMatchBySubstring ==
    Compared =>
        \A key \in DOMAIN expected \cap ListKeys :
            LET c == comparison[key]
            IN  /\ c.expected = expected[key]
                /\ c.actual = Actual(detailed_result.stages)[key]
                /\ c.match_percentage.num = Cardinality(Hits(key))
                /\ c.match_percentage.den
                       = (IF c.expected = <<>> THEN 1 ELSE Len(c.expected))
                /\ c.match <=> (c.expected # <<>>
                                /\ Cardinality(Hits(key)) = Len(c.expected))
                /\ (\A j \in 1..Len(c.actual) : c.actual[j] = None)
                      => (c.match_percentage.num = 0 /\ ~c.match)

\* One of two expected items was found, the upper-case B in the actual
\* item xAb, next to an actual item that is None; and an expected list was
\* empty.
C22_Witness ==
    /\ Compared
    /\ "databases" \in DOMAIN comparison
    /\ comparison.requested_context.expected = <<item_ab, item_B>>
    /\ comparison.requested_context.actual = <<Text(item_a), None, Text(item_B)>>
    /\ comparison.requested_context.match_percentage = [num |-> 1, den |-> 2]
    /\ comparison.databases.actual = <<Text(item_xAb)>>
    /\ comparison.databases.match

\* The stages of the result that have the given name.
StagesNamed(name) ==
    {k \in 1..Len(detailed_result.stages) :
        detailed_result.stages[k].name = name}

StageOf(key) ==
    CASE key = "router" -> "router_decision"
      [] key = "clarifier" -> "clarifier_decision"
      [] OTHER -> "none"

\* C23: for the other keys (router, clarifier) match is true exactly when
\* the expected and the actual value are both non-empty and equal, a stage
\* that never appeared gives actual None and match false, and the overall
\* match is the number of keys with match true over the number of expected
\* keys, 0 when there are none.
C23_SimpleKeysMatchByEquality ==
    Compared =>
        /\ DOMAIN comparison = DOMAIN expected
        /\ \A key \in DOMAIN expected \ ListKeys :
              LET c == comparison[key]
              IN  /\ c.expected = expected[key]
                  /\ c.match <=>
                        /\ c.expected \notin {None, Text("")}
                        /\ c.actual \notin {None, Text("")}
                        /\ c.expected = c.actual
                  /\ StagesNamed(StageOf(key)) = {}
                        => (c.actual = None /\ ~c.match)
        /\ overall =
              IF DOMAIN expected = {} THEN [num |-> 0, den |-> 1]
              ELSE [num |-> Cardinality({key \in DOMAIN expected :
                                            comparison[key].match}),
                    den |-> Cardinality(DOMAIN expected)]

\* The router decision was the expected one while no clarifier stage
\* appeared: one of two keys matched.
C23_Witness ==
    /\ Compared
    /\ DOMAIN comparison = {"router", "clarifier"}
    /\ comparison.router.match
    /\ StagesNamed("clarifier_decision") = {}
    /\ comparison.clarifier.actual = None
    /\ overall = [num |-> 1, den |-> 2]

-----------------------------------------------------------------------------
(* Claims about run_all_tests, checked under SpecRunAll.                   *)

\* model() fails for the i-th test case: the call raises, or the iteration
\* of its generator does.
ModelFails(i) ==
    \/ generators[i].call = "raises"
    \/ generators[i].chunks = <<>>
    \/ generators[i].end = "raises"

\* C24: run_all_tests returns one result per test case of its input list,
\* in the order of the list, and the result of every test case, those after
\* a failed one included, is the one of its own run: it has an "error"
\* exactly when model() failed for that test case, and otherwise the
\* response_type of its own first chunk.
C24_OneResultPerTestCase ==
    all_results # NotReturned =>
        /\ Len(all_results) = Len(tests)
        /\ \A i \in 1..Len(tests) :
              /\ all_results[i].id = tests[i].id
              /\ all_results[i].description = tests[i].description
              /\ ("error" \in DOMAIN all_results[i]) <=> ModelFails(i)
              /\ ~ModelFails(i) =>
                    all_results[i].response_type
                        = Get(generators[i].chunks[1], "type", "None")
              /\ i > 1 => all_results[i].start_time >= all_results[i - 1].end_time

\* The model call of the first test case failed and the third test case
\* ran to completion.
C24_Witness ==
    /\ all_results # NotReturned
    /\ Len(all_results) = 3
    /\ generators[1].call = "raises"
    /\ "error" \in DOMAIN all_results[1]
    /\ "error" \notin DOMAIN all_results[3]
    /\ all_results[3].id = "TC003"
    /\ all_results[3].duration = 1

-----------------------------------------------------------------------------
(* Claims about the paths of the review notebook, checked under Spec.      *)

ConnOpened == <<"conn", "connect">>
ConnSelect == <<"conn", "select">>
ConnClosed == <<"conn", "close">>

\* C25: in the review notebook a connection that was opened is closed
\* exactly once when the cell has returned, whether both queries succeeded
\* or the catalog query or the content query failed; it is never closed
\* twice, nothing is closed that was not opened, and no query follows the
\* close on the connection.
C25_OpenedConnectionClosedOnce ==
    notebook = "review" =>
        /\ Count(log, ConnClosed) <= 1
        /\ LogHas(ConnClosed) => LogHas(ConnOpened)
        /\ (pc = "idle" /\ LogHas(ConnOpened)) =>
              (Count(log, ConnClosed) = 1 /\ conn = "closed")
        /\ \A i, j \in 1..Len(log) :
              (log[i] = ConnClosed /\ i < j) => log[j] # ConnSelect

\* The cell returned with the connection closed after the content query
\* had failed.
C25_Witness ==
    /\ notebook = "review"
    /\ pc = "idle"
    /\ log = <<ConnOpened, ConnSelect, ConnSelect, ConnClosed>>
    /\ CatalogFetched
    /\ ~ContentFetched
    /\ conn = "closed"

\* The catalog query succeeded and the content query was issued and failed.
ContentQueryFailed ==
    /\ pc \in {"review_finally", "idle"}
    /\ CatalogFetched
    /\ Count(log, ConnSelect) = 2
    /\ ~ContentFetched

\* The catalog query was issued and failed.
CatalogQueryFailed ==
    /\ pc \in {"review_finally", "idle"}
    /\ LogHas(ConnSelect)
    /\ ~CatalogFetched

\* C26: in the review notebook, after the catalog query succeeded and the
\* content query failed, catalog_df holds the rows fetched and
\* content_summary_df is empty; after the catalog query failed the content
\* query is not issued and both frames are empty; and a display cell shows
\* the frame as it is then when it has rows, and its "No ... data loaded."
\* line when it is empty.
C26_PartialResultsAreKept ==
    [][notebook = "review" =>
          /\ ContentQueryFailed' =>
                /\ catalog_df' = catalog_query'
                /\ content_summary_df' = <<>>
          /\ CatalogQueryFailed' =>
                /\ Count(log', ConnSelect) = 1
                /\ catalog_df' = <<>>
                /\ content_summary_df' = <<>>
          /\ displayed'.catalog # displayed.catalog =>
                displayed'.catalog =
                    (IF catalog_df = <<>>
                     THEN Printed("No catalog data loaded.")
                     ELSE Frame(catalog_df))
          /\ displayed'.content # displayed.content =>
                displayed'.content =
                    (IF content_summary_df = <<>>
                     THEN Printed("No content summary data loaded.")
                     ELSE Frame(content_summary_df))]_vars

\* After the content query failed, the display cells showed the catalog
\* rows fetched and the line for no content.
C26_Witness ==
    /\ notebook = "review"
    /\ ContentQueryFailed
    /\ pc = "idle"
    /\ catalog_df # <<>>
    /\ displayed.catalog = Frame(catalog_df)
    /\ displayed.content = Printed("No content summary data loaded.")

-----------------------------------------------------------------------------
(* Claims about the locks of the privileges notebook, checked under Spec.  *)

\* A probe is about to issue, or has issued, its ALTER TABLE apg_catalog.
AlterIssued ==
    /\ probe \in {"alter", "vector_column"}
    /\ pc \in {"execute", "waiting", "finally", "close"}
    /\ test_conn = "open"

\* C27: in the privileges notebook, when a probe issues ALTER TABLE
\* apg_catalog on its own connection, the transaction of the main connection
\* holds no lock on apg_catalog, whether or not it is open, so the statement
\* never waits for the main connection.
C27_ProbeNotBlockedByMainConnection ==
    notebook = "permissions" =>
        /\ pc # "waiting"
        /\ AlterIssued => "apg_catalog" \notin locks

\* The ALTER TABLE of a probe was executed while the main connection's
\* transaction, opened by check_user_privileges, was still open.
C27_Witness ==
    /\ notebook = "permissions"
    /\ probe = "alter"
    /\ pc = "finally"
    /\ LogHas(<<"test_conn", "ddl">>)
    /\ txn = "open"
    /\ PrivilegeRelations \subseteq locks

====
